---- MODULE Spec2Model ----
(***************************************************************************)
(* Model of src/main.py (YoutubeClipZap): the interactive run of main(),   *)
(* YouTubeProcessor.download_and_trim and the subtitle trimmer             *)
(* YouTubeProcessor._trim_subtitle_file with its time conversions.         *)
(*                                                                         *)
(* Times of subtitle cues are floats in the source.  They are modelled as  *)
(* integers counting ticks of 1/SubMs millisecond, so that the rounding to *)
(* milliseconds done by _seconds_to_srt_time ("%06.3f") is a real          *)
(* operation of the model.  Trim windows are whole seconds, as the source  *)
(* gets them from parse_timestamp.                                         *)
(***************************************************************************)
EXTENDS Integers, Sequences, FiniteSets, TLC

VARIABLES
    pc,             \* position of main() / download_and_trim
    video_url,      \* processor.video_url as handed to fetch_stats
    duration,       \* video_info['duration']
    languages,      \* number of entries of get_subtitle_languages()
    quality,        \* key chosen in get_quality_choice
    subtitle_lang,  \* 0 = None, else the chosen language (1-based)
    start_time,     \* text accepted by the start-time prompt
    end_time,       \* text accepted by the end-time prompt
    files,          \* names of the files in the working directory
    ffmpeg_runs,    \* the ffmpeg runs made so far: <<[mode, res, subs]>>
    result,         \* how main() ended: "running", "exit0", "exit1"
    outcome,        \* how download_and_trim ended: "none", "returned", "raised", "interrupted"
    interrupted_at, \* prompt at which KeyboardInterrupt was delivered, or "none"
    reprompted,     \* the current prompt was asked again after a rejected input
    input_srt,      \* the subtitle file read by _trim_subtitle_file (Unreadable: none)
    start_seconds,  \* trim window
    end_seconds,
    output_srt,     \* the subtitle file written by _trim_subtitle_file
    trim_pc,        \* position of a direct call of _trim_subtitle_file
    stamp           \* a timestamp text taken through parse_timestamp and _format_duration

vars == <<pc, video_url, duration, languages, quality, subtitle_lang,
          start_time, end_time, files, ffmpeg_runs, result, outcome,
          interrupted_at, reprompted, input_srt, start_seconds, end_seconds,
          output_srt, trim_pc, stamp>>

mainVars == <<pc, video_url, duration, languages, quality, subtitle_lang,
              start_time, end_time, files, ffmpeg_runs, result, outcome,
              interrupted_at, reprompted>>

-----------------------------------------------------------------------------
(* Bounds of the model *)

\* ticks per millisecond: the resolution of the cue times read by float()
SubMs == 5
\* most blocks in a subtitle file
MaxBlocks == 3
\* largest whole second of a trim window handed to _trim_subtitle_file
MaxWindow == 2

TPS == 1000 * SubMs     \* ticks per second

Max(a, b) == IF a >= b THEN a ELSE b
Min(a, b) == IF a <= b THEN a ELSE b

-----------------------------------------------------------------------------
(* SRT time strings.  "HH:MM:SS,fff..." is [ok, h, m, s]: ok is FALSE for   *)
(* text that int()/float() reject; s is the seconds field in ticks.        *)

SrtTime(hh, mm, ss) == [ok |-> TRUE, h |-> hh, m |-> mm, s |-> ss]
BadSrtTime == [ok |-> FALSE, h |-> 0, m |-> 0, s |-> 0]

\* _srt_time_to_seconds: hours * 3600 + minutes * 60 + seconds (in ticks)
srt_time_to_seconds(t) == t.h * 3600 * TPS + t.m * 60 * TPS + t.s

\* "%06.3f": the seconds field rounded to the nearest millisecond
RoundMs(ticks) == (2 * ticks + SubMs) \div (2 * SubMs)

\* _seconds_to_srt_time: the written text "HH:MM:SS,mmm" as [h, m, ms]
seconds_to_srt_time(seconds) ==
    [h  |-> seconds \div (3600 * TPS),
     m  |-> (seconds % (3600 * TPS)) \div (60 * TPS),
     ms |-> RoundMs(seconds % (60 * TPS))]

\* the time a written "HH:MM:SS,mmm" denotes, in milliseconds
WrittenMs(w) == w.h * 3600000 + w.m * 60000 + w.ms

-----------------------------------------------------------------------------
(* _trim_subtitle_file *)

\* A block of the input: nlines lines, the first an index, the second the
\* time line with `arrows` occurrences of " --> ", the rest the text.
Block(n, idx, arr, s, e, txt) ==
    [nlines |-> n, index |-> idx, arrows |-> arr, start |-> s, end |-> e, text |-> txt]

\* the block passes `len(lines) >= 3` and the parsing of its time line
Parses(block) ==
    /\ block.nlines >= 3
    /\ block.arrows = 1
    /\ block.start.ok
    /\ block.end.ok

\* the window test with the boundaries included (used by the faulty variant below)
OverlapsInclusive(sub_start, sub_end, start, end) ==
    sub_end >= start /\ sub_start <= end

\* `if sub_end > start_seconds and sub_start < end_seconds`
Overlaps(sub_start, sub_end, start, end) ==
    sub_end > start /\ sub_start < end

\* faulty variant: the window test and the guard on the new times include equality
TrimBlockInclusive(acc, block, start, end) ==
    IF ~Parses(block) THEN acc
    ELSE LET sub_start == srt_time_to_seconds(block.start)
             sub_end   == srt_time_to_seconds(block.end)
             new_start == Max(0, sub_start - start * TPS)
             new_end   == Min((end - start) * TPS, sub_end - start * TPS)
         IN IF OverlapsInclusive(sub_start, sub_end, start * TPS, end * TPS)
               /\ new_end >= new_start
            THEN [blocks  |-> Append(acc.blocks,
                                [counter |-> acc.counter,
                                 start   |-> seconds_to_srt_time(new_start),
                                 end     |-> seconds_to_srt_time(new_end),
                                 text    |-> block.text]),
                  counter |-> acc.counter + 1]
            ELSE acc

\* faulty variant: a skipped or dropped block still takes a number
TrimBlockCountsAll(acc, block, start, end) ==
    LET skip == [acc EXCEPT !.counter = @ + 1] IN
    IF ~Parses(block) THEN skip
    ELSE LET sub_start == srt_time_to_seconds(block.start)
             sub_end   == srt_time_to_seconds(block.end)
             new_start == Max(0, sub_start - start * TPS)
             new_end   == Min((end - start) * TPS, sub_end - start * TPS)
         IN IF Overlaps(sub_start, sub_end, start * TPS, end * TPS) /\ new_end > new_start
            THEN [blocks  |-> Append(acc.blocks,
                                [counter |-> acc.counter,
                                 start   |-> seconds_to_srt_time(new_start),
                                 end     |-> seconds_to_srt_time(new_end),
                                 text    |-> block.text]),
                  counter |-> acc.counter + 1]
            ELSE skip

\* one iteration of `for block in blocks`; acc = [blocks: trimmed_blocks, counter]
TrimBlock(acc, block, start, end) ==
    IF ~Parses(block) THEN acc
    ELSE LET sub_start == srt_time_to_seconds(block.start)
             sub_end   == srt_time_to_seconds(block.end)
             new_start == Max(0, sub_start - start * TPS)
             new_end   == Min((end - start) * TPS, sub_end - start * TPS)
         IN IF Overlaps(sub_start, sub_end, start * TPS, end * TPS) /\ new_end > new_start
            THEN [blocks  |-> Append(acc.blocks,
                                [counter |-> acc.counter,
                                 start   |-> seconds_to_srt_time(new_start),
                                 end     |-> seconds_to_srt_time(new_end),
                                 text    |-> block.text]),
                  counter |-> acc.counter + 1]
            ELSE acc

RECURSIVE TrimLoop(_, _, _, _)
TrimLoop(acc, blocks, start, end) ==
    IF blocks = <<>> THEN acc
    ELSE TrimLoop(TrimBlock(acc, Head(blocks), start, end), Tail(blocks), start, end)

\* the subtitle files: an input that cannot be opened or decoded has readable = FALSE
Unreadable == [readable |-> FALSE, blocks |-> <<>>]
Readable(bs) == [readable |-> TRUE, blocks |-> bs]
NoOutput == [exists |-> FALSE, blocks |-> <<>>]
Written(bs) == [exists |-> TRUE, blocks |-> bs]

\* faulty variant: the failure to read the input is not caught
trim_subtitle_file_propagates(input, start, end) ==
    IF ~input.readable
    THEN [raised |-> TRUE, out |-> NoOutput]
    ELSE [raised |-> FALSE,
          out |-> Written(TrimLoop([blocks |-> <<>>, counter |-> 1],
                                   input.blocks, start, end).blocks)]

\* _trim_subtitle_file: [raised, out], out the file written at output_srt
trim_subtitle_file(input, start, end) ==
    IF ~input.readable
    THEN [raised |-> FALSE, out |-> Written(<<>>)]
    ELSE [raised |-> FALSE,
          out |-> Written(TrimLoop([blocks |-> <<>>, counter |-> 1],
                                   input.blocks, start, end).blocks)]

-----------------------------------------------------------------------------
(* User-entered text *)

\* most seconds of video_info['duration']
MaxDuration == 2
\* most subtitle languages of the video
MaxLanguages == 2

\* A URL is [scheme, sub, host, idlen]: scheme "://" prefix, sub-domain
\* prefix, host and path up to the video id, and the number of [\w-]
\* characters that follow.
Url(sc, sb, h, n) == [scheme |-> sc, sub |-> sb, host |-> h, idlen |-> n]
NoUrl == Url("", "", "", 0)

\* validate_url: re.match of the three youtube_patterns
validate_url(url) ==
    /\ url.scheme \in {"", "http://", "https://"}
    /\ url.idlen >= 1
    /\ \/ url.sub \in {"", "www."} /\ url.host = "youtube.com/watch?v="
       \/ url.sub \in {"", "www."} /\ url.host = "youtu.be/"
       \/ url.sub \in {"", "m."}   /\ url.host = "youtube.com/watch?v="

UrlTexts ==
    { Url("https://", "www.", "youtube.com/watch?v=", 11),
      Url("", "m.", "youtube.com/watch?v=", 11),
      Url("https://", "m.", "youtu.be/", 11),
      Url("https://", "www.", "vimeo.com/", 9),
      Url("https://", "www.", "youtube.com/watch?v=", 0) }

\* A timestamp text is the sequence of its ':'-separated fields; a field is
\* [num, val]: num is FALSE for text that int() rejects.
F(n) == [num |-> TRUE, val |-> n]
Junk == [num |-> FALSE, val |-> 0]
NoText == <<>>

\* parse_timestamp: [ok, seconds]; ok = FALSE is the ValueError
parse_timestamp(timestamp) ==
    IF Len(timestamp) = 2 /\ \A i \in 1..2 : timestamp[i].num
    THEN [ok |-> TRUE, seconds |-> timestamp[1].val * 60 + timestamp[2].val]
    ELSE IF Len(timestamp) = 3 /\ \A i \in 1..3 : timestamp[i].num
    THEN [ok |-> TRUE,
          seconds |-> timestamp[1].val * 3600 + timestamp[2].val * 60 + timestamp[3].val]
    ELSE [ok |-> FALSE, seconds |-> 0]

\* validate_timestamps: [ok, start, end]; ok = FALSE is the ValueError
validate_timestamps(start, end, video_duration) ==
    LET s == parse_timestamp(start)
        e == parse_timestamp(end)
    IN IF ~s.ok \/ ~e.ok THEN [ok |-> FALSE, start |-> 0, end |-> 0]
       ELSE IF s.seconds >= e.seconds THEN [ok |-> FALSE, start |-> 0, end |-> 0]
       ELSE IF s.seconds >= video_duration THEN [ok |-> FALSE, start |-> 0, end |-> 0]
       ELSE IF e.seconds > video_duration THEN [ok |-> FALSE, start |-> 0, end |-> 0]
       ELSE [ok |-> TRUE, start |-> s.seconds, end |-> e.seconds]

\* the text "N/A"
NotAvailable == <<Junk>>

\* faulty variant: the hours are never written
format_duration_no_hours(seconds) ==
    IF seconds = 0 THEN NotAvailable
    ELSE <<F((seconds % 3600) \div 60), F(seconds % 60)>>

\* _format_duration: "N/A", "HH:MM:SS" or "MM:SS" (int() reads a zero-padded
\* field as its value)
format_duration(seconds) ==
    IF seconds = 0 THEN NotAvailable
    ELSE LET hours   == seconds \div 3600
             minutes == (seconds % 3600) \div 60
             secs    == seconds % 60
         IN IF hours > 0 THEN <<F(hours), F(minutes), F(secs)>>
                         ELSE <<F(minutes), F(secs)>>

\* no timestamp is being converted
NoStamp == [pc |-> "idle", text |-> NoText, seconds |-> 0,
            formatted |-> NoText, back |-> [ok |-> FALSE, seconds |-> 0]]

TimestampTexts ==
    { <<F(0), F(s)>> : s \in -1..(MaxDuration + 1) }
    \cup { <<F(1), F(0)>>, <<F(0), F(0), F(1)>>, <<F(0), Junk>>, <<F(1)>> }

\* quality_options
QualityKeys == {"1", "2", "3", "4", "5"}

-----------------------------------------------------------------------------
(* Direct calls of _trim_subtitle_file: SpecTrim *)

\* the time lines of the blocks of the input files
TimeLines ==
    { <<SrtTime(0, 0, 0), SrtTime(0, 0, TPS)>>,                 \* 0s --> 1s
      <<SrtTime(0, 0, TPS), SrtTime(0, 0, 2 * TPS)>>,           \* 1s --> 2s
      <<SrtTime(0, 0, 2 * TPS), SrtTime(1, 0, 0)>>,             \* 2s --> 1h
      <<SrtTime(0, 0, TPS + 1), SrtTime(0, 0, TPS + 2)>>,       \* within a millisecond
      <<SrtTime(0, 0, 0), SrtTime(0, 1, 0)>>,                   \* 0s --> 1min
      <<SrtTime(0, 0, TPS + SubMs - 1), SrtTime(0, 0, 2 * TPS)>>,
      <<SrtTime(0, 0, 2 * TPS), SrtTime(0, 0, TPS)>> }          \* end before start

\* a block at position i of a file; its text names the position
BlockShapes ==
    { [nlines |-> 3, arrows |-> 1, start |-> tl[1], end |-> tl[2]] : tl \in TimeLines }
    \cup { [nlines |-> 2, arrows |-> 1, start |-> SrtTime(0, 0, TPS), end |-> SrtTime(0, 0, 2 * TPS)],
           [nlines |-> 3, arrows |-> 0, start |-> SrtTime(0, 0, TPS), end |-> SrtTime(0, 0, 2 * TPS)],
           [nlines |-> 3, arrows |-> 1, start |-> BadSrtTime, end |-> SrtTime(0, 0, 2 * TPS)] }

FileOf(shapes) ==
    Readable([i \in DOMAIN shapes |->
                Block(shapes[i].nlines, 10 * i, shapes[i].arrows,
                      shapes[i].start, shapes[i].end, i)])

SubtitleFiles ==
    {Unreadable} \cup
    UNION { { FileOf(shapes) : shapes \in [1..n -> BlockShapes] } : n \in 0..MaxBlocks }

Windows == { w \in (-1..MaxWindow) \X (0..MaxWindow) : w[1] < w[2] }

MainIdle ==
    /\ pc = "direct"
    /\ video_url = NoUrl
    /\ duration = 0
    /\ languages = 0
    /\ quality = ""
    /\ subtitle_lang = 0
    /\ start_time = NoText
    /\ end_time = NoText
    /\ files = {}
    /\ ffmpeg_runs = <<>>
    /\ result = "running"
    /\ outcome = "none"
    /\ interrupted_at = "none"
    /\ reprompted = FALSE

InitTrim ==
    /\ MainIdle
    /\ stamp = NoStamp
    /\ trim_pc = "call"
    /\ input_srt \in SubtitleFiles
    /\ \E w \in Windows : start_seconds = w[1] /\ end_seconds = w[2]
    /\ output_srt = NoOutput

TrimCall ==
    /\ trim_pc = "call"
    /\ LET r == trim_subtitle_file(input_srt, start_seconds, end_seconds)
       IN /\ output_srt' = r.out
          /\ trim_pc' = IF r.raised THEN "raised" ELSE "returned"
    /\ UNCHANGED <<input_srt, start_seconds, end_seconds>>
    /\ UNCHANGED <<mainVars, stamp>>

NextTrim == TrimCall

SpecTrim == InitTrim /\ [][NextTrim]_vars

-----------------------------------------------------------------------------
(* Claims about _trim_subtitle_file, under SpecTrim *)

\* C1: every cue written by _trim_subtitle_file has
\* 0 <= newStart < newEnd <= end_seconds - start_seconds, read from the
\* written time line: no zero-duration or negative-duration cue is written.
C1_WrittenCuesInsideWindow ==
    trim_pc = "returned" =>
        \A j \in DOMAIN output_srt.blocks :
            LET c == output_srt.blocks[j]
            IN /\ 0 <= WrittenMs(c.start)
               /\ WrittenMs(c.start) < WrittenMs(c.end)
               /\ WrittenMs(c.end) <= (end_seconds - start_seconds) * 1000

\* the cue of input position i is in the output
Appears(i) == \E j \in DOMAIN output_srt.blocks : output_srt.blocks[j].text = i

\* C5: a cue is in the output only if it ends after start_seconds and starts
\* before end_seconds, and every parsed cue with start < end that passes
\* this test is in the output.
C5_KeptIffOverlaps ==
    trim_pc = "returned" =>
        \A i \in DOMAIN input_srt.blocks :
            LET b == input_srt.blocks[i]
                s == srt_time_to_seconds(b.start)
                e == srt_time_to_seconds(b.end)
                inside == e > start_seconds * TPS /\ s < end_seconds * TPS
            IN /\ Appears(i) => Parses(b) /\ inside
               /\ (Parses(b) /\ s < e /\ inside) => Appears(i)

\* a cue ending exactly at start_seconds and one starting exactly at
\* end_seconds were dropped while another cue was kept
C5_Witness ==
    /\ trim_pc = "returned"
    /\ \E i, j, k \in DOMAIN input_srt.blocks :
        /\ Parses(input_srt.blocks[i]) /\ Parses(input_srt.blocks[j])
        /\ srt_time_to_seconds(input_srt.blocks[i].end) = start_seconds * TPS
        /\ srt_time_to_seconds(input_srt.blocks[j].start) = end_seconds * TPS
        /\ ~Appears(i) /\ ~Appears(j) /\ Appears(k)

\* the input without its malformed blocks
WellFormedOnly(input) == [input EXCEPT !.blocks = SelectSeq(@, Parses)]

\* C6: malformed blocks are skipped and leave the rest of the output as it
\* would be without them: same cues, same timings, same numbering.
C6_MalformedSkipped ==
    trim_pc = "returned" /\ input_srt.readable =>
        /\ output_srt = trim_subtitle_file(WellFormedOnly(input_srt),
                                           start_seconds, end_seconds).out
        /\ \A j \in DOMAIN output_srt.blocks :
              Parses(input_srt.blocks[output_srt.blocks[j].text])

\* one broken block between two well-formed overlapping blocks: 2 cues out
C6_Witness ==
    /\ trim_pc = "returned"
    /\ Len(input_srt.blocks) = 3
    /\ Parses(input_srt.blocks[1])
    /\ ~Parses(input_srt.blocks[2])
    /\ Parses(input_srt.blocks[3])
    /\ Len(output_srt.blocks) = 2
    /\ output_srt.blocks[2].counter = 2

\* C9: an empty or unreadable input does not raise; the output file is
\* written and is empty.
C9_EmptyOrUnreadable ==
    /\ trim_pc /= "raised"
    /\ (trim_pc = "returned" /\ (~input_srt.readable \/ input_srt.blocks = <<>>)) =>
            output_srt = Written(<<>>)

C9_Witness ==
    trim_pc = "returned" /\ ~input_srt.readable /\ output_srt.exists

\* C10: the written cues are numbered 1..n without gaps and keep the order
\* of the input.
C10_NumberedInOrder ==
    trim_pc = "returned" =>
        /\ \A j \in DOMAIN output_srt.blocks : output_srt.blocks[j].counter = j
        /\ \A j, k \in DOMAIN output_srt.blocks :
              j < k => output_srt.blocks[j].text < output_srt.blocks[k].text

\* blocks were dropped before and between the kept ones, and the kept ones
\* are not in the order of their new start times
C10_Witness ==
    /\ trim_pc = "returned"
    /\ Len(output_srt.blocks) = 2
    /\ output_srt.blocks[1].text = 1
    /\ output_srt.blocks[2].text = 3
    /\ output_srt.blocks[2].counter = 2
    /\ WrittenMs(output_srt.blocks[1].start) > WrittenMs(output_srt.blocks[2].start)

-----------------------------------------------------------------------------
(* The working directory.  A file name is [prefix, ext]: startswith() and  *)
(* endswith() read one field each.                                         *)

File(p, e) == [prefix |-> p, ext |-> e]
TempVideo   == File("temp_video", ".mp4")        \* outtmpl "temp_video.%(ext)s"
TempPart    == File("temp_video", ".mp4.part")   \* an unfinished download
TempSrt     == File("temp_video", ".srt")        \* the downloaded subtitles
TrimmedSubs == File("temp_trimmed_subs", ".srt")
OutputFile  == File("output", ".mp4")
Notes       == File("notes", ".txt")

\* f.startswith('temp_video') or f.startswith('temp_trimmed_subs')
IsTemp(f) == f.prefix = "temp_video" \/ f.prefix = "temp_trimmed_subs"

VideoFiles(fs) == { f \in fs : f.prefix = "temp_video" /\ f.ext \notin {".srt", ".vtt"} }
SrtFiles(fs) == { f \in fs : f.prefix = "temp_video" /\ f.ext = ".srt" }

\* "Clean up temp files": every deletion succeeds
CleanUp(fs) == { f \in fs : ~IsTemp(f) }

\* faulty variant: a failed run is always tried again
ShouldRetryAlways(actual_subtitle_file) == TRUE

\* `if actual_subtitle_file:` in the handler of ffmpeg.Error
ShouldRetry(actual_subtitle_file) == actual_subtitle_file

\* the subtitle files the downloader may write
DownloadedSubtitles ==
    { Unreadable,
      FileOf(<<>>),
      FileOf(<<[nlines |-> 3, arrows |-> 1,
                start |-> SrtTime(0, 0, 0), end |-> SrtTime(0, 1, 0)]>>) }

trimVars == <<input_srt, start_seconds, end_seconds, output_srt, trim_pc>>
answers == <<video_url, duration, languages, quality, subtitle_lang, start_time, end_time>>
media == <<files, ffmpeg_runs, outcome>>

Init ==
    /\ pc = "url"
    /\ video_url = NoUrl
    /\ duration = 0
    /\ languages = 0
    /\ quality = ""
    /\ subtitle_lang = 0
    /\ start_time = NoText
    /\ end_time = NoText
    /\ files = {Notes}
    /\ ffmpeg_runs = <<>>
    /\ result = "running"
    /\ outcome = "none"
    /\ interrupted_at = "none"
    /\ reprompted = FALSE
    /\ input_srt = Unreadable
    /\ start_seconds = 0
    /\ end_seconds = 0
    /\ output_srt = NoOutput
    /\ trim_pc = "idle"
    /\ stamp = NoStamp

Goto(p) == pc' = p /\ reprompted' = FALSE
Reprompt == pc' = pc /\ reprompted' = TRUE
Exit(code) == pc' = "done" /\ result' = code /\ reprompted' = FALSE

\* faulty variant: the interrupt is reported like any other exception, exit status 1
PromptInterruptedAsError ==
    /\ pc \in {"url", "ask_trim", "quality", "ask_subtitles", "start_time",
               "end_time", "filename", "confirm"}
    /\ interrupted_at' = pc
    /\ Exit("exit1")
    /\ UNCHANGED <<answers, media, trimVars, stamp>>

\* KeyboardInterrupt at a prompt of get_user_input (sys.exit(0)) or at an
\* input() of ask_yes_no, get_quality_choice or main (except KeyboardInterrupt)
PromptInterrupted ==
    /\ pc \in {"url", "ask_trim", "quality", "ask_subtitles", "start_time",
               "end_time", "filename", "confirm"}
    /\ interrupted_at' = pc
    /\ Exit("exit0")
    /\ UNCHANGED <<answers, media, trimVars, stamp>>

\* get_user_input: "Input cannot be empty. Please try again."
EmptyInput ==
    /\ pc \in {"url", "start_time", "end_time"}
    /\ Reprompt
    /\ UNCHANGED <<result, interrupted_at, answers, media, trimVars, stamp>>

\* ask_yes_no: "Please enter 'y' or 'n'."
YesNoInvalid ==
    /\ pc \in {"ask_trim", "ask_subtitles", "confirm"}
    /\ Reprompt
    /\ UNCHANGED <<result, interrupted_at, answers, media, trimVars, stamp>>

\* the URL prompt: validate_url returns a bool that get_user_input drops
UrlEntered ==
    /\ pc = "url"
    /\ \E url \in UrlTexts :
          /\ video_url' = url
          /\ Goto("fetch_stats")
    /\ UNCHANGED <<duration, languages, quality, subtitle_lang, start_time, end_time>>
    /\ UNCHANGED <<result, interrupted_at, media, trimVars, stamp>>

\* fetch_stats raises: ValueError of an invalid URL, or the extractor fails
FetchStatsFails ==
    /\ pc = "fetch_stats"
    /\ Exit("exit1")
    /\ UNCHANGED <<interrupted_at, answers, media, trimVars, stamp>>

\* fetch_stats returns the stats of the video
FetchStatsOk ==
    /\ pc = "fetch_stats"
    /\ validate_url(video_url)
    /\ duration' \in 1..MaxDuration
    /\ languages' \in 0..MaxLanguages
    /\ Goto("ask_trim")
    /\ UNCHANGED <<video_url, quality, subtitle_lang, start_time, end_time>>
    /\ UNCHANGED <<result, interrupted_at, media, trimVars, stamp>>

AskTrimYes ==
    /\ pc = "ask_trim"
    /\ Goto("quality")
    /\ UNCHANGED <<result, interrupted_at, answers, media, trimVars, stamp>>

\* "Video stats displayed. Goodbye!"
AskTrimNo ==
    /\ pc = "ask_trim"
    /\ Exit("exit0")
    /\ UNCHANGED <<interrupted_at, answers, media, trimVars, stamp>>

\* get_quality_choice
QualityChosen ==
    /\ pc = "quality"
    /\ quality' \in QualityKeys
    /\ Goto(IF languages > 0 THEN "ask_subtitles" ELSE "start_time")
    /\ UNCHANGED <<video_url, duration, languages, subtitle_lang, start_time, end_time>>
    /\ UNCHANGED <<result, interrupted_at, media, trimVars, stamp>>

QualityInvalid ==
    /\ pc = "quality"
    /\ Reprompt
    /\ UNCHANGED <<result, interrupted_at, answers, media, trimVars, stamp>>

AskSubtitlesYes ==
    /\ pc = "ask_subtitles"
    /\ Goto("select_subtitle")
    /\ UNCHANGED <<result, interrupted_at, answers, media, trimVars, stamp>>

AskSubtitlesNo ==
    /\ pc = "ask_subtitles"
    /\ Goto("start_time")
    /\ UNCHANGED <<result, interrupted_at, answers, media, trimVars, stamp>>

\* select_subtitle_language: a number is entered
SelectSubtitleNumber ==
    /\ pc = "select_subtitle"
    /\ \E choice \in 0..(languages + 1) :
          LET idx == choice - 1
          IN IF 0 <= idx /\ idx < languages
             THEN subtitle_lang' = choice /\ Goto("start_time")
             ELSE subtitle_lang' = subtitle_lang /\ Reprompt
    /\ UNCHANGED <<video_url, duration, languages, quality, start_time, end_time>>
    /\ UNCHANGED <<result, interrupted_at, media, trimVars, stamp>>

\* select_subtitle_language: "Please enter a number."
SelectSubtitleNotNumber ==
    /\ pc = "select_subtitle"
    /\ Reprompt
    /\ UNCHANGED <<result, interrupted_at, answers, media, trimVars, stamp>>

\* select_subtitle_language: an empty choice returns None
SelectSubtitleEmpty ==
    /\ pc = "select_subtitle"
    /\ Goto("start_time")
    /\ UNCHANGED <<result, interrupted_at, answers, media, trimVars, stamp>>

\* select_subtitle_language: `except KeyboardInterrupt: return None`
SelectSubtitleInterrupted ==
    /\ pc = "select_subtitle"
    /\ interrupted_at' = pc
    /\ Goto("start_time")
    /\ UNCHANGED <<result, answers, media, trimVars, stamp>>

\* the start-time prompt, validator parse_timestamp
StartTimeEntered ==
    /\ pc = "start_time"
    /\ \E text \in TimestampTexts :
          IF parse_timestamp(text).ok
          THEN start_time' = text /\ Goto("end_time")
          ELSE start_time' = start_time /\ Reprompt
    /\ UNCHANGED <<video_url, duration, languages, quality, subtitle_lang, end_time>>
    /\ UNCHANGED <<result, interrupted_at, media, trimVars, stamp>>

\* the end-time prompt, validator validate_timestamps(start_time, x)
EndTimeEntered ==
    /\ pc = "end_time"
    /\ \E text \in TimestampTexts :
          IF validate_timestamps(start_time, text, duration).ok
          THEN end_time' = text /\ Goto("filename")
          ELSE end_time' = end_time /\ Reprompt
    /\ UNCHANGED <<video_url, duration, languages, quality, subtitle_lang, start_time>>
    /\ UNCHANGED <<result, interrupted_at, media, trimVars, stamp>>

\* "Custom filename (optional): "
FilenameEntered ==
    /\ pc = "filename"
    /\ Goto("confirm")
    /\ UNCHANGED <<result, interrupted_at, answers, media, trimVars, stamp>>

ConfirmYes ==
    /\ pc = "confirm"
    /\ Goto("download_and_trim")
    /\ UNCHANGED <<result, interrupted_at, answers, media, trimVars, stamp>>

\* "Operation cancelled."
ConfirmNo ==
    /\ pc = "confirm"
    /\ Exit("exit0")
    /\ UNCHANGED <<interrupted_at, answers, media, trimVars, stamp>>

-----------------------------------------------------------------------------
(* download_and_trim *)

\* the trim window of download_and_trim
Window == validate_timestamps(start_time, end_time, duration)

\* `except Exception`: clean up, raise; main prints the error and exits 1
Raised(fs) ==
    /\ files' = CleanUp(fs)
    /\ outcome' = "raised"
    /\ Exit("exit1")

\* KeyboardInterrupt is no Exception: it passes the handler of
\* download_and_trim and reaches main's `except KeyboardInterrupt`
Interrupted(fs) ==
    /\ files' = fs
    /\ outcome' = "interrupted"
    /\ Exit("exit0")

\* the clean-up of the success path, `return output_path`, and main's SUCCESS
Returned(fs) ==
    /\ files' = CleanUp(fs)
    /\ outcome' = "returned"
    /\ Exit("exit0")

\* ydl.download returns
DownloadOk ==
    /\ pc = "download_and_trim"
    /\ Window.ok
    /\ start_seconds' = Window.start
    /\ end_seconds' = Window.end
    /\ \E video \in SUBSET {TempVideo},
          subs \in (IF subtitle_lang /= 0 THEN SUBSET {TempSrt} ELSE {{}}) :
          LET fs == files \cup video \cup subs
          IN /\ IF subs /= {} THEN input_srt' \in DownloadedSubtitles
                              ELSE input_srt' = input_srt
             /\ IF VideoFiles(fs) = {}
                THEN Raised(fs)       \* "Downloaded video file not found"
                ELSE files' = fs /\ outcome' = outcome /\ result' = result
                     /\ Goto("ffmpeg")
    /\ UNCHANGED <<ffmpeg_runs, interrupted_at, answers, output_srt, trim_pc, stamp>>

\* ydl.download raises
DownloadFails ==
    /\ pc = "download_and_trim"
    /\ Window.ok
    /\ start_seconds' = Window.start
    /\ end_seconds' = Window.end
    /\ \E partial \in SUBSET {TempPart} : Raised(files \cup partial)
    /\ UNCHANGED <<ffmpeg_runs, interrupted_at, answers, input_srt, output_srt, trim_pc, stamp>>

\* the user interrupts ydl.download
DownloadInterrupted ==
    /\ pc = "download_and_trim"
    /\ Window.ok
    /\ start_seconds' = Window.start
    /\ end_seconds' = Window.end
    /\ \E partial \in SUBSET {TempPart} : Interrupted(files \cup partial)
    /\ UNCHANGED <<ffmpeg_runs, interrupted_at, answers, input_srt, output_srt, trim_pc, stamp>>

actual_subtitle_file == SrtFiles(files) /= {}
Burn == actual_subtitle_file /\ subtitle_lang /= 0

\* the files once the trimmed subtitles are written
WithTrimmedSubs == IF Burn THEN files \cup {TrimmedSubs} ELSE files

\* the first ffmpeg run: the subtitles are trimmed first when they are burnt in
FirstRun(res) ==
    /\ pc = "ffmpeg"
    /\ output_srt' = IF Burn
                     THEN trim_subtitle_file(input_srt, start_seconds, end_seconds).out
                     ELSE output_srt
    /\ ffmpeg_runs' = Append(ffmpeg_runs,
                             [mode |-> IF Burn THEN "burn" ELSE "copy",
                              res  |-> res,
                              subs |-> actual_subtitle_file])
    /\ UNCHANGED <<interrupted_at, answers, input_srt, start_seconds, end_seconds, trim_pc, stamp>>

FfmpegOk ==
    /\ FirstRun("ok")
    /\ Returned(WithTrimmedSubs \cup {OutputFile})

\* ffmpeg.Error: retry without subtitles, or `raise e`
FfmpegError ==
    /\ FirstRun("ffmpeg.Error")
    /\ IF ShouldRetry(actual_subtitle_file)
       THEN /\ files' = WithTrimmedSubs
            /\ outcome' = outcome /\ result' = result
            /\ Goto("retry")
       ELSE Raised(WithTrimmedSubs)

\* any other exception of the run, such as a missing ffmpeg executable
FfmpegOtherError ==
    /\ FirstRun("error")
    /\ Raised(WithTrimmedSubs)

FfmpegInterrupted ==
    /\ FirstRun("interrupt")
    /\ Interrupted(WithTrimmedSubs)

\* the second run, `c='copy'`, inside the handler of ffmpeg.Error
Retry(res) ==
    /\ pc = "retry"
    /\ ffmpeg_runs' = Append(ffmpeg_runs,
                             [mode |-> "copy", res |-> res, subs |-> actual_subtitle_file])
    /\ UNCHANGED <<interrupted_at, answers, trimVars, stamp>>

RetryOk ==
    /\ Retry("ok")
    /\ Returned(files \cup {OutputFile})

RetryFails ==
    /\ \E res \in {"ffmpeg.Error", "error"} : Retry(res)
    /\ Raised(files)

RetryInterrupted ==
    /\ Retry("interrupt")
    /\ Interrupted(files)

Next ==
    \/ PromptInterrupted
    \/ EmptyInput
    \/ YesNoInvalid
    \/ UrlEntered
    \/ FetchStatsFails
    \/ FetchStatsOk
    \/ AskTrimYes
    \/ AskTrimNo
    \/ QualityChosen
    \/ QualityInvalid
    \/ AskSubtitlesYes
    \/ AskSubtitlesNo
    \/ SelectSubtitleNumber
    \/ SelectSubtitleNotNumber
    \/ SelectSubtitleEmpty
    \/ SelectSubtitleInterrupted
    \/ StartTimeEntered
    \/ EndTimeEntered
    \/ FilenameEntered
    \/ ConfirmYes
    \/ ConfirmNo
    \/ DownloadOk
    \/ DownloadFails
    \/ DownloadInterrupted
    \/ FfmpegOk
    \/ FfmpegError
    \/ FfmpegOtherError
    \/ FfmpegInterrupted
    \/ RetryOk
    \/ RetryFails
    \/ RetryInterrupted

Spec == Init /\ [][Next]_vars

-----------------------------------------------------------------------------
(* Claims about main() and download_and_trim, under Spec *)

\* C2: however download_and_trim ends once the download was started
\* (return, exception or user interruption), no file whose name starts with
\* temp_video or temp_trimmed_subs is left in the working directory.
C2_NoTempFilesLeft ==
    outcome /= "none" => \A f \in files : ~IsTemp(f)

\* C3: the run moves past a validated prompt only with a value that passed
\* its validation; a URL that is no YouTube URL never reaches fetch_stats.
C3_OnlyValidInputPasses ==
    /\ video_url /= NoUrl => validate_url(video_url)
    /\ start_time /= NoText => parse_timestamp(start_time).ok
    /\ end_time /= NoText => validate_timestamps(start_time, end_time, duration).ok

\* C4: a KeyboardInterrupt at any interactive prompt ends the run: no later
\* prompt, no download, exit status 0.
C4_InterruptAbortsRun ==
    interrupted_at /= "none" =>
        pc = "done" /\ result = "exit0" /\ outcome = "none"

\* C4 as amended: a KeyboardInterrupt at any prompt but the subtitle-language
\* choice ends the run with exit status 0, with no later prompt and no
\* download; at the subtitle-language choice it selects no subtitles and the
\* run goes on.
C4_InterruptAbortsExceptSubtitleChoice ==
    /\ interrupted_at \notin {"none", "select_subtitle"} =>
            pc = "done" /\ result = "exit0" /\ outcome = "none"
    /\ interrupted_at = "select_subtitle" =>
            subtitle_lang = 0 /\ pc /= "select_subtitle"

\* the run was interrupted at the end-time prompt and ended with status 0
C4_Witness ==
    interrupted_at = "end_time" /\ pc = "done" /\ result = "exit0"

\* C7: a failed burn-in run is retried exactly once as a stream copy, and a
\* successful retry is a success; without a subtitle file the failure is
\* raised without a retry; a failed retry is raised without another retry.
C7_RetryOnceWithoutSubtitles ==
    LET n == Len(ffmpeg_runs)
        failed(i) == ffmpeg_runs[i].res \in {"ffmpeg.Error", "error"}
    IN /\ n <= 2
       /\ n = 2 => /\ ffmpeg_runs[1].res = "ffmpeg.Error"
                   /\ ffmpeg_runs[1].subs
                   /\ ffmpeg_runs[2].mode = "copy"
       /\ (n >= 1 /\ ffmpeg_runs[1].mode = "burn" /\ ffmpeg_runs[1].res = "ffmpeg.Error") =>
              \/ n = 1 /\ pc = "retry" /\ outcome = "none"
              \/ n = 2
       /\ (n = 2 /\ ffmpeg_runs[2].res = "ok") =>
              outcome = "returned" /\ result = "exit0"
       /\ (n = 2 /\ failed(2)) =>
              outcome = "raised" /\ pc = "done" /\ result = "exit1"
       /\ (n >= 1 /\ ~ffmpeg_runs[1].subs /\ failed(1)) =>
              n = 1 /\ outcome = "raised" /\ result = "exit1"

\* the burn-in run failed, the retry as a stream copy succeeded, and
\* download_and_trim returned
C7_Witness ==
    /\ Len(ffmpeg_runs) = 2
    /\ ffmpeg_runs[1].mode = "burn"
    /\ ffmpeg_runs[1].res = "ffmpeg.Error"
    /\ ffmpeg_runs[2].mode = "copy"
    /\ ffmpeg_runs[2].res = "ok"
    /\ outcome = "returned"

\* C8: every pair that validate_timestamps accepts, and every trim window
\* handed to the downloader and the trimmer, has
\* 0 <= start < end <= video duration.
C8_WindowInsideVideo ==
    /\ end_time /= NoText =>
          /\ Window.ok
          /\ 0 <= Window.start
          /\ Window.start < Window.end
          /\ Window.end <= duration
    /\ (pc \in {"ffmpeg", "retry"} \/ outcome /= "none") =>
          /\ 0 <= start_seconds
          /\ start_seconds < end_seconds
          /\ end_seconds <= duration

\* C12: every start time accepted by the start-time prompt is before the end
\* of the video, so some end-time input passes validate_timestamps and the
\* end-time prompt can be passed.
C12_EndTimePassable ==
    pc = "end_time" =>
        /\ parse_timestamp(start_time).seconds < duration
        /\ \E text \in TimestampTexts :
              validate_timestamps(start_time, text, duration).ok

-----------------------------------------------------------------------------
(* parse_timestamp and _format_duration on their own: SpecStamp *)

\* largest small value of a field of a timestamp text
MaxStampField == 2

\* the values of the fields: small ones and those around a full minute
StampFields == (0..MaxStampField) \cup {59, 60, 61}

\* the valid texts MM:SS and HH:MM:SS with non-negative integer fields
StampTexts ==
    { <<F(m), F(sec)>> : m \in StampFields, sec \in StampFields }
    \cup { <<F(h), F(m), F(sec)>> : h \in StampFields, m \in StampFields, sec \in StampFields }

TrimIdle ==
    /\ trim_pc = "idle"
    /\ input_srt = Unreadable
    /\ start_seconds = 0
    /\ end_seconds = 0
    /\ output_srt = NoOutput

InitStamp ==
    /\ MainIdle
    /\ TrimIdle
    /\ \E text \in StampTexts : stamp = [NoStamp EXCEPT !.pc = "text", !.text = text]

\* parse_timestamp(x), then _format_duration of its value
ParseAndFormat ==
    /\ stamp.pc = "text"
    /\ parse_timestamp(stamp.text).ok
    /\ LET seconds == parse_timestamp(stamp.text).seconds
       IN stamp' = [stamp EXCEPT !.pc = "formatted",
                                 !.seconds = seconds,
                                 !.formatted = format_duration(seconds)]
    /\ UNCHANGED <<mainVars, trimVars>>

\* parse_timestamp of the formatted text
ParseFormatted ==
    /\ stamp.pc = "formatted"
    /\ stamp' = [stamp EXCEPT !.pc = "reparsed",
                              !.back = parse_timestamp(stamp.formatted)]
    /\ UNCHANGED <<mainVars, trimVars>>

NextStamp ==
    \/ ParseAndFormat
    \/ ParseFormatted

SpecStamp == InitStamp /\ [][NextStamp]_vars

\* C11: for every valid MM:SS or HH:MM:SS text x with non-negative integer
\* fields, parse_timestamp(_format_duration(parse_timestamp(x))) is
\* parse_timestamp(x), x = 00:00 and values of an hour or more included.
C11_RoundTrip ==
    stamp.pc = "reparsed" =>
        stamp.back.ok /\ stamp.back.seconds = stamp.seconds

\* C11 as amended: the round trip gives back the value of every valid text
\* worth at least one second; a text worth zero seconds is formatted as
\* "N/A", which parse_timestamp rejects.
C11_RoundTripOfPositive ==
    stamp.pc = "reparsed" =>
        /\ stamp.seconds > 0 =>
              stamp.back.ok /\ stamp.back.seconds = stamp.seconds
        /\ stamp.seconds = 0 =>
              stamp.formatted = NotAvailable /\ ~stamp.back.ok

\* a text MM:SS worth an hour or more went through the round trip, and came
\* back from a text HH:MM:SS
C11_Witness ==
    /\ stamp.pc = "reparsed"
    /\ Len(stamp.text) = 2
    /\ stamp.seconds >= 3600
    /\ Len(stamp.formatted) = 3
    /\ stamp.back.ok

====
